---- MODULE Spec2Model ----
(***************************************************************************)
(* pydupe: the duplicate index (LuTable), the partition engine (dd3 with   *)
(* check_and_autoselect) and the validating executor (Dupetable.validate,  *)
(* Dupetable.delete, move_file_to_trash).                                  *)
(*                                                                         *)
(* A path is the sequence of its components below the root, a component is *)
(* the sequence of its character codes: /t/q is << <<116>>, <<113>> >>.    *)
(* A content hash is a natural number, ordered as the hex digests are.     *)
(* A LuTable is the sequence of its buckets in dict insertion order, each  *)
(* bucket a record [k |-> hash, v |-> the deque of paths].                 *)
(***************************************************************************)
EXTENDS Integers, Sequences, FiniteSets, TLC

VARIABLES
    dupes,            \* Dupes.dupes: the duplicate index read from the database
    deldir,           \* Dupetable._deldir
    pattern,          \* Dupetable._pattern
    match_deletions,  \* Dupetable._match_deletions
    dupes_global,     \* Dupetable._dupes_global
    autoselect,       \* Dupetable._autoselect
    deltable,         \* Dupetable._deltable
    keeptable,        \* Dupetable._keeptable
    deduped,          \* Dupetable._deduped
    pc,               \* where the run stands
    err,              \* the exception that ended the run, "none" if none
    fs,               \* the filesystem: existing path -> kind of entry
    fs0,              \* the filesystem when the run started
    db,               \* committed lookup records of the database (their paths)
    db0,              \* the lookup records when the run started
    pending,          \* records deleted in the open transaction, not yet committed
    trash,            \* argument trash of Dupetable.delete
    hard,             \* argument delete of Dupetable.delete
    chunks,           \* filelist_chunked
    ci,               \* index of the chunk being processed
    fi,               \* index of the next file in that chunk
    done,             \* files processed so far with the target computed for each
    do_move,          \* option do_move of the dd command
    report,           \* what the dry run of dd has printed, << >> before it has
    hashseed,         \* the order in which this process iterates a set of hashes
    lut,              \* a LuTable of its own, operated on through its methods
    tree,             \* the regular files on disk: path -> stat signature and content
    active,           \* the lookup records: path -> stat signature and hash
    archive,          \* the records moved out of the lookup table
    results           \* what the runs of the hash command returned, in order

vars == <<dupes, deldir, pattern, match_deletions, dupes_global, autoselect,
          deltable, keeptable, deduped, pc, err, fs, fs0, db, db0, pending,
          trash, hard, chunks, ci, fi, done, do_move, report,
          hashseed, lut, tree, active, archive, results>>

optionVars == <<deldir, pattern, match_deletions, dupes_global, autoselect>>
execVars == <<fs, db, pending, trash, hard, chunks, ci, fi, done>>
cliVars == <<do_move, report>>
scanVars == <<tree, active, archive, results>>

----------------------------------------------------------------------------
(* Bounds of the model *)

\* most (hash, path) pairs in the duplicate index of the partition runs
MaxPairs == 4

\* number of distinct content hashes
NumHashes == 2

Hashes == 1..NumHashes

\* most indexed paths that are no regular file when the executor runs
MaxBad == 1

\* files per database transaction: chunked(..., 20) in Dupetable.delete, scaled
\* down so that an index of MaxPairs paths fills more than one chunk
ChunkSize == 2

----------------------------------------------------------------------------
(* Paths, names and their order *)

\* /t/q, /t/t/q, /t/t/b, /b/q, /b/z
AllPaths ==
    { << <<116>>, <<113>> >>,
      << <<116>>, <<116>>, <<113>> >>,
      << <<116>>, <<116>>, <<98>> >>,
      << <<98>>, <<113>> >>,
      << <<98>>, <<122>> >> }

\* the files of the executor runs: /t/q, /t/t/q, /t/t/b, /b/q
ExecPaths ==
    { << <<116>>, <<113>> >>,
      << <<116>>, <<116>>, <<113>> >>,
      << <<116>>, <<116>>, <<98>> >>,
      << <<98>>, <<113>> >> }

\* the trash directories: /t, which the index covers, and /x, which it does not
Trashes == { << <<116>> >>, << <<120>> >> }

\* /t, /t/t, /b
Deldirs == { << <<116>> >>, << <<116>>, <<116>> >>, << <<98>> >> }

Min(a, b) == IF a <= b THEN a ELSE b

\* str.__lt__: code point by code point, a proper prefix is smaller
StrLess(a, b) ==
    \E i \in 1..(Min(Len(a), Len(b)) + 1) :
        /\ \A j \in 1..(i - 1) : a[j] = b[j]
        /\ \/ i > Len(a) /\ i <= Len(b)
           \/ i <= Len(a) /\ i <= Len(b) /\ a[i] < b[i]

\* PurePath.__lt__: the lists of parts compared as Python lists are
PathLess(f, g) ==
    \E i \in 1..(Min(Len(f), Len(g)) + 1) :
        /\ \A j \in 1..(i - 1) : f[j] = g[j]
        /\ \/ i > Len(f) /\ i <= Len(g)
           \/ i <= Len(f) /\ i <= Len(g) /\ StrLess(f[i], g[i])

\* PurePath.name: the final component, the empty string for the root
name(f) == IF Len(f) = 0 THEN << >> ELSE f[Len(f)]

\* PurePath.is_relative_to: parent is f or an ancestor of f
is_relative_to(parent, f) ==
    /\ Len(parent) <= Len(f)
    /\ \A j \in 1..Len(parent) : f[j] = parent[j]

\* a variant of sorted_paths: the paths ordered by their filename alone
sorted_by_name(s) == SortSeq(s, LAMBDA a, b : StrLess(name(a), name(b)))

\* sorted() of a list of paths
sorted_paths(s) == SortSeq(s, LAMBDA a, b : PathLess(a, b))

\* sorted() of a set of hashes
RECURSIVE sorted_keys(_)
sorted_keys(S) ==
    IF S = {} THEN << >>
    ELSE LET m == CHOOSE x \in S : \A y \in S : x <= y
         IN <<m>> \o sorted_keys(S \ {m})

----------------------------------------------------------------------------
(* Regular expressions: a pattern is a sequence of atoms, each a literal   *)
(* character, "." or "^"; re.search looks for a match at every offset.     *)

Lit(c) == [t |-> "lit", c |-> c]
Dot == [t |-> "dot", c |-> 0]
Caret == [t |-> "caret", c |-> 0]

\* the pattern atoms k.. match s from position pos on
RECURSIVE match_at(_, _, _, _)
match_at(pat, k, s, pos) ==
    IF k > Len(pat) THEN TRUE
    ELSE IF pat[k].t = "caret"
         THEN pos = 1 /\ match_at(pat, k + 1, s, pos)
         ELSE /\ pos <= Len(s)
              /\ IF pat[k].t = "dot" THEN s[pos] # 10 ELSE s[pos] = pat[k].c
              /\ match_at(pat, k + 1, s, pos + 1)

\* re.compile(pat).search(s) is not None
search(pat, s) == \E pos \in 1..(Len(s) + 1) : match_at(pat, 1, s, pos)

\* ".", "q", "b"
Patterns == { <<Dot>>, <<Lit(113)>>, <<Lit(98)>> }

----------------------------------------------------------------------------
(* LuTable *)

\* LuTable(): self._hashlu = {}
LuTable == << >>

\* LuTable.keys
keys(t) == { t[i].k : i \in DOMAIN t }

\* LuTable.__getitem__ (the caller has checked that key is present)
getitem(t, key) == t[CHOOSE i \in DOMAIN t : t[i].k = key].v

\* LuTable.add: a new deque for a new key, then append
add(t, item) ==
    IF item[1] \in keys(t)
    THEN [i \in DOMAIN t |->
            IF t[i].k = item[1] THEN [t[i] EXCEPT !.v = Append(@, item[2])] ELSE t[i]]
    ELSE Append(t, [k |-> item[1], v |-> <<item[2]>>])

\* deque.remove: the first occurrence of e goes
remove(s, e) ==
    LET i == CHOOSE n \in 1..Len(s) : s[n] = e /\ \A j \in 1..(n - 1) : s[j] # e
    IN SubSeq(s, 1, i - 1) \o SubSeq(s, i + 1, Len(s))

\* a variant of discard: the path stays in its deque
discard_nothing(t, x) == t

\* LuTable.discard: remove the path, pop the key when its deque is empty
discard(t, x) ==
    LET t1 == [i \in DOMAIN t |->
                 IF t[i].k = x[1] THEN [t[i] EXCEPT !.v = remove(@, x[2])] ELSE t[i]]
    IN SelectSeq(t1, LAMBDA e : ~(e.k = x[1] /\ e.v = << >>))

\* LuTable.__delitem__
delitem(t, key) == SelectSeq(t, LAMBDA e : e.k # key)

\* LuTable.ldel: for every key of the iterable, in its order, the key is deleted
\* if it is present
RECURSIVE ldel(_, _)
ldel(t, iterable) ==
    IF iterable = << >> THEN t
    ELSE ldel(IF iterable[1] \in keys(t) THEN delitem(t, iterable[1]) ELSE t,
              Tail(iterable))

\* iteration over a set of hashes: its elements in the order of the process,
\* which for a set of strings changes from one process to the next
set_iter(S, seed) == SelectSeq(seed, LAMBDA h : h \in S)

\* LuTable.lextend: a new deque for a new key, then extend by other[key]
lextend(t, other, key) ==
    IF key \in keys(t)
    THEN [i \in DOMAIN t |->
            IF t[i].k = key THEN [t[i] EXCEPT !.v = @ \o getitem(other, key)] ELSE t[i]]
    ELSE Append(t, [k |-> key, v |-> getitem(other, key)])

\* LuTable.__iter__: the (hash, file) pairs, key by key in insertion order
RECURSIVE iter(_)
iter(t) ==
    IF t = << >> THEN << >>
    ELSE [i \in 1..Len(t[1].v) |-> <<t[1].k, t[1].v[i]>>] \o iter(Tail(t))

\* LuTable.__len__
len(t) == Len(iter(t))

\* the paths of all buckets, chained
chain_values(t) == [i \in 1..len(t) |-> iter(t)[i][2]]

\* the loop "for item in items: t.add(item)"
RECURSIVE add_all(_, _)
add_all(t, items) ==
    IF items = << >> THEN t ELSE add_all(add(t, items[1]), Tail(items))

\* a variant of ior: nothing of other is added
ior_nothing(t, other) == t

\* MutableSet.__ior__: self.add(value) for every value of other
ior(t, other) == add_all(t, iter(other))

\* the (hash, path) pairs of a table, as a set
pairs(t) == { iter(t)[i] : i \in 1..len(t) }

\* the paths a table holds for a hash, as a set
paths_of(t, h) == { x[2] : x \in { y \in pairs(t) : y[1] = h } }

----------------------------------------------------------------------------
(* The partition engine *)

\* a variant of autoselect_pattern: "." whatever the flag
autoselect_pattern_any(a) == <<Dot>>

\* "." matches anything, "a^" matches nothing
autoselect_pattern(a) == IF a THEN <<Dot>> ELSE <<Lit(97), Caret>>

\* a variant of del_single: no key is deleted
del_single_nothing(dt, ks) == dt

\* dd3, the loop over keys_only_in_deltable: a key with one file goes
RECURSIVE del_single(_, _)
del_single(dt, ks) ==
    IF ks = << >> THEN dt
    ELSE del_single(IF Len(getitem(dt, ks[1])) = 1 THEN delitem(dt, ks[1]) ELSE dt,
                    Tail(ks))

\* a variant of select_tables: with match_deletions and dupes_global the paths
\* outside deldir are joined to deltable, as they are without match_deletions
select_tables_outside_deleted(dps, dir, pat, md, glob, seed) ==
    LET in_deldir_hashlu ==
            add_all(LuTable, SelectSeq(iter(dps), LAMBDA x : is_relative_to(dir, x[2])))
        outside0 ==
            add_all(LuTable, SelectSeq(iter(dps), LAMBDA x : ~is_relative_to(dir, x[2])))
        delitems == set_iter(keys(outside0) \ keys(in_deldir_hashlu), seed)
        outside_deldir_hashlu == ldel(outside0, delitems)
        match_pattern_hashlu ==
            add_all(LuTable, SelectSeq(iter(in_deldir_hashlu),
                                       LAMBDA x : search(pat, name(x[2]))))
        no_match_pattern_hashlu ==
            add_all(LuTable, SelectSeq(iter(in_deldir_hashlu),
                                       LAMBDA x : ~search(pat, name(x[2]))))
        keys_only_in_deltable ==
            set_iter(keys(match_pattern_hashlu) \ keys(no_match_pattern_hashlu), seed)
    IN IF md
       THEN IF glob
            THEN [deltable |-> ior(match_pattern_hashlu, outside_deldir_hashlu),
                  keeptable |-> no_match_pattern_hashlu]
            ELSE [deltable |-> del_single(match_pattern_hashlu, keys_only_in_deltable),
                  keeptable |-> no_match_pattern_hashlu]
       ELSE IF glob
            THEN [deltable |-> ior(no_match_pattern_hashlu, outside_deldir_hashlu),
                  keeptable |-> match_pattern_hashlu]
            ELSE [deltable |-> no_match_pattern_hashlu,
                  keeptable |-> match_pattern_hashlu]

\* dd3 up to the call of check_and_autoselect: the tables handed to it
select_tables(dps, dir, pat, md, glob, seed) ==
    LET in_deldir_hashlu ==
            add_all(LuTable, SelectSeq(iter(dps), LAMBDA x : is_relative_to(dir, x[2])))
        outside0 ==
            add_all(LuTable, SelectSeq(iter(dps), LAMBDA x : ~is_relative_to(dir, x[2])))
        delitems == set_iter(keys(outside0) \ keys(in_deldir_hashlu), seed)
        outside_deldir_hashlu == ldel(outside0, delitems)
        match_pattern_hashlu ==
            add_all(LuTable, SelectSeq(iter(in_deldir_hashlu),
                                       LAMBDA x : search(pat, name(x[2]))))
        no_match_pattern_hashlu ==
            add_all(LuTable, SelectSeq(iter(in_deldir_hashlu),
                                       LAMBDA x : ~search(pat, name(x[2]))))
        keys_only_in_deltable ==
            set_iter(keys(match_pattern_hashlu) \ keys(no_match_pattern_hashlu), seed)
    IN IF md
       THEN IF glob
            THEN [deltable |-> match_pattern_hashlu,
                  keeptable |-> ior(no_match_pattern_hashlu, outside_deldir_hashlu)]
            ELSE [deltable |-> del_single(match_pattern_hashlu, keys_only_in_deltable),
                  keeptable |-> no_match_pattern_hashlu]
       ELSE IF glob
            THEN [deltable |-> ior(no_match_pattern_hashlu, outside_deldir_hashlu),
                  keeptable |-> match_pattern_hashlu]
            ELSE [deltable |-> no_match_pattern_hashlu,
                  keeptable |-> match_pattern_hashlu]

\* the first file of values whose name the pattern finds, 0 if none
first_match(values, ap) ==
    LET hits == { i \in 1..Len(values) : search(ap, name(values[i])) }
    IN IF hits = {} THEN 0 ELSE CHOOSE i \in hits : \A j \in hits : i <= j

\* one round of the loop of check_and_autoselect, for hash hsh
autoselect_hash(st, old_deltable, hsh, ap) ==
    IF hsh \in keys(st.keeptable) THEN st
    ELSE LET k1 == lextend(st.keeptable, st.deltable, hsh)
             d1 == ldel(st.deltable, <<hsh>>)
             values == sorted_paths(getitem(old_deltable, hsh))
             n == first_match(values, ap)
             k2 == discard(k1, <<hsh, values[n]>>)
         IN IF n = 0
            THEN [deltable |-> d1, keeptable |-> k1, raised |-> "none"]
            ELSE IF hsh \notin keys(k2)
                 THEN [deltable |-> d1, keeptable |-> k2, raised |-> "KeyError"]
                 ELSE [deltable |-> add(d1, <<hsh, values[n]>>), keeptable |-> k2,
                       raised |-> "none"]

RECURSIVE autoselect_loop(_, _, _, _)
autoselect_loop(st, old_deltable, hs, ap) ==
    IF hs = << >> \/ st.raised # "none" THEN st
    ELSE autoselect_loop(autoselect_hash(st, old_deltable, hs[1], ap),
                         old_deltable, Tail(hs), ap)

\* a variant of hash_order: the keys are iterated as a set, not sorted
hash_order_unsorted(t, seed) == set_iter(keys(t), seed)

\* check_and_autoselect: "for hsh in sorted(old_deltable.keys())", the same
\* order in every process
hash_order(t, seed) == sorted_keys(keys(t))

\* a variant of check_and_autoselect: the tables go back as they came
check_and_autoselect_skipped(dt, kt, ap, seed) ==
    [deltable |-> dt, keeptable |-> kt, raised |-> "none"]

\* check_and_autoselect: the tables returned, or the exception raised
check_and_autoselect(dt, kt, ap, seed) ==
    autoselect_loop([deltable |-> dt, keeptable |-> kt, raised |-> "none"],
                    dt, hash_order(dt, seed), ap)

\* dd3
dd3(dps, dir, pat, md, glob, auto, seed) ==
    LET sel == select_tables(dps, dir, pat, md, glob, seed)
    IN check_and_autoselect(sel.deltable, sel.keeptable, autoselect_pattern(auto), seed)

----------------------------------------------------------------------------
(* The duplicate indexes the database can hand out *)

\* the sequences without repetition of at most n elements of S
RECURSIVE inj_seqs(_, _)
inj_seqs(S, n) ==
    IF n = 0 THEN { << >> }
    ELSE LET shorter == inj_seqs(S, n - 1)
             longest == { q \in shorter : Len(q) = n - 1 }
             more(q) == { Append(q, x) : x \in S \ { q[i] : i \in DOMAIN q } }
         IN shorter \cup UNION { more(q) : q \in longest }

\* get_dupes: the rows of the database, in the order the query yields them, added
\* one by one; a row has a unique filename, and its hash occurs in two rows or more
get_dupes(rows, hash_of) ==
    add_all(LuTable, [i \in DOMAIN rows |-> <<hash_of[rows[i]], rows[i]>>])

\* the orders in which a process can iterate a set of hashes
Seeds == { q \in inj_seqs(Hashes, NumHashes) : Len(q) = NumHashes }

DupeIndexes(files, n) ==
    { t \in { get_dupes(rows, hash_of) : rows \in inj_seqs(files, n),
                                         hash_of \in [files -> Hashes] } :
        \A i \in DOMAIN t : Len(t[i].v) >= 2 }

----------------------------------------------------------------------------
(* The filesystem: a function from the existing paths to the kind of entry *)

\* the proper ancestors of a path, the root left out
parents(f) == { SubSeq(f, 1, n) : n \in 1..(Len(f) - 1) }

\* Path.exists follows symbolic links: a link to nothing does not exist
exists(fsys, f) == f \in DOMAIN fsys /\ fsys[f] # "link_missing"

\* Path.is_dir follows symbolic links
is_dir(fsys, f) == f \in DOMAIN fsys /\ fsys[f] \in {"dir", "link_dir"}

\* Path.is_symlink does not
is_symlink(fsys, f) ==
    f \in DOMAIN fsys /\ fsys[f] \in {"link_file", "link_dir", "link_missing"}

\* what an indexed path can have become since it was hashed
BadKinds == {"missing", "dir", "link_file", "link_dir", "link_missing"}

\* the filesystem in which the files of bad are of kind kd, every other indexed
\* file is a regular file and every directory above an indexed file exists
make_fs(files, bad, kd) ==
    LET there == { f \in files : f \notin bad \/ kd[f] # "missing" }
        dirs == UNION { parents(f) : f \in files }
    IN [f \in there \cup dirs |->
            IF f \in dirs THEN "dir" ELSE IF f \in bad THEN kd[f] ELSE "file"]

\* the filesystems with at most n indexed paths that are no regular file
Filesystems(files, n) ==
    UNION { { make_fs(files, bad, kd) : kd \in [bad -> BadKinds] } :
            bad \in { b \in SUBSET files : Cardinality(b) <= n } }

----------------------------------------------------------------------------
(* The run of the partition engine: Dupetable(dedupe = True) *)

\* no run of the hash command is part of the run
NoScan ==
    /\ tree = << >>
    /\ active = << >>
    /\ archive = << >>
    /\ results = << >>

\* the state once Dupes.__init__ has read the index
Loaded(indexes, nbad) ==
    /\ dupes \in indexes
    /\ deldir = << >>
    /\ pattern = <<Dot>>
    /\ match_deletions = TRUE
    /\ dupes_global = FALSE
    /\ autoselect = FALSE
    /\ deltable = LuTable
    /\ keeptable = LuTable
    /\ deduped = FALSE
    /\ pc = "start"
    /\ err = "none"
    /\ fs \in Filesystems({ x[2] : x \in pairs(dupes) }, nbad)
    /\ fs0 = fs
    /\ db = { x[2] : x \in pairs(dupes) }
    /\ db0 = db
    /\ pending = {}
    /\ trash = << >>
    /\ hard = FALSE
    /\ chunks = << >>
    /\ ci = 1
    /\ fi = 1
    /\ done = << >>
    /\ lut = LuTable

Init ==
    /\ Loaded(DupeIndexes(AllPaths, MaxPairs), 0)
    /\ do_move = FALSE
    /\ report = << >>
    /\ hashseed \in Seeds
    /\ NoScan

\* Dupetable.__init__ with dedupe = True, and Dupetable.dedupe
Dedupe(dir, pat, md, glob, auto) ==
    /\ pc = "start"
    /\ deldir' = dir
    /\ pattern' = pat
    /\ match_deletions' = md
    /\ dupes_global' = glob
    /\ autoselect' = auto
    /\ LET r == dd3(dupes, dir, pat, md, glob, auto, hashseed)
       IN IF r.raised = "none"
          THEN /\ deltable' = r.deltable
               /\ keeptable' = r.keeptable
               /\ deduped' = TRUE
               /\ pc' = "deduped"
               /\ err' = "none"
          ELSE /\ UNCHANGED <<deltable, keeptable, deduped>>
               /\ pc' = "raised"
               /\ err' = r.raised
    /\ UNCHANGED <<scanVars, lut, hashseed, do_move, report, dupes, fs, fs0, db, db0, pending, trash, hard, chunks, ci, fi, done>>

\* the dd command builds the Dupetable from its options
DedupeAny ==
    \E dir \in Deldirs, pat \in Patterns, md \in BOOLEAN, glob \in BOOLEAN,
       auto \in BOOLEAN : Dedupe(dir, pat, md, glob, auto)

Next == DedupeAny

Spec == Init /\ [][Next]_vars

----------------------------------------------------------------------------
(* The validating executor *)

\* Dupetable.validate, first loop: a file of a common key is in both tables
overlap(kt, dt) ==
    \E key \in keys(kt) \cap keys(dt) :
        { getitem(kt, key)[i] : i \in DOMAIN getitem(kt, key) } \cap
        { getitem(dt, key)[i] : i \in DOMAIN getitem(dt, key) } # {}

\* a variant of files_to_check: the loop is left after its first file
files_to_check_first(kt, dt) ==
    LET s == chain_values(kt) \o chain_values(dt)
    IN  IF s = << >> THEN << >> ELSE << s[1] >>

\* Dupetable.validate, second loop: the files it runs over, in its order
files_to_check(kt, dt) == chain_values(kt) \o chain_values(dt)

\* a variant of check_file: the symbolic link is looked for first
check_file_link_first(fsys, f) ==
    IF is_symlink(fsys, f) THEN "DupeIsSymLink"
    ELSE IF ~exists(fsys, f) THEN "DupeFileNotFound"
    ELSE IF is_dir(fsys, f) THEN "DupeIsDirectory"
    ELSE "none"

\* Dupetable.validate, second loop: the exception one file raises, if any
check_file(fsys, f) ==
    IF ~exists(fsys, f) THEN "DupeFileNotFound"
    ELSE IF is_dir(fsys, f) THEN "DupeIsDirectory"
    ELSE IF is_symlink(fsys, f) THEN "DupeIsSymLink"
    ELSE "none"

\* the exception of the first file that raises one, "none" if no file does
first_raised(fsys, files) ==
    LET bad == { i \in DOMAIN files : check_file(fsys, files[i]) # "none" }
    IN IF bad = {} THEN "none"
       ELSE check_file(fsys, files[CHOOSE i \in bad : \A j \in bad : i <= j])

\* a variant of validate: the files are looked at before the tables are compared
validate_files_first(kt, dt, fsys) ==
    IF first_raised(fsys, files_to_check(kt, dt)) # "none"
    THEN first_raised(fsys, files_to_check(kt, dt))
    ELSE IF overlap(kt, dt) THEN "DupeNotValidated" ELSE "none"

\* Dupetable.validate: the exception it raises, "none" if it returns
validate(kt, dt, fsys) ==
    IF overlap(kt, dt) THEN "DupeNotValidated"
    ELSE first_raised(fsys, files_to_check(kt, dt))

\* more_itertools.chunked
RECURSIVE chunked(_, _)
chunked(s, n) ==
    IF s = << >> THEN << >>
    ELSE IF Len(s) <= n THEN <<s>>
    ELSE <<SubSeq(s, 1, n)>> \o chunked(SubSeq(s, n + 1, Len(s)), n)

\* str() of a natural number
RECURSIVE str(_)
str(n) == IF n < 10 THEN <<48 + n>> ELSE str(n \div 10) \o <<48 + (n % 10)>>

\* PurePath.suffix begins at the last "." of the name, unless that is its first or
\* its last character; the index of that ".", 0 if the name has no suffix
suffix_at(nm) ==
    LET dots == { i \in DOMAIN nm : nm[i] = 46 }
        last == CHOOSE i \in dots : \A j \in dots : j <= i
    IN IF dots = {} THEN 0
       ELSE IF 1 < last /\ last < Len(nm) THEN last ELSE 0

\* PurePath.stem
stem(f) ==
    IF suffix_at(name(f)) = 0 THEN name(f)
    ELSE SubSeq(name(f), 1, suffix_at(name(f)) - 1)

\* PurePath.with_stem: the new stem, then the old suffix
with_stem(f, st) ==
    LET nm == name(f)
        suffix == IF suffix_at(nm) = 0 THEN << >> ELSE SubSeq(nm, suffix_at(nm), Len(nm))
    IN SubSeq(f, 1, Len(f) - 1) \o << st \o suffix >>

\* rename_if_exists: file, or file with _1, _2, ... at its stem, the first that
\* does not exist; of the first |fsys| + 1 candidates one is free
rename_if_exists(fsys, file) ==
    IF exists(fsys, file)
    THEN LET newPath(numb) == with_stem(file, stem(file) \o <<95>> \o str(numb))
             free == { numb \in 1..(Cardinality(DOMAIN fsys) + 1) :
                           ~exists(fsys, newPath(numb)) }
         IN newPath(CHOOSE numb \in free : \A m \in free : numb <= m)
    ELSE file

\* move_file_to_trash: target = p(str(trash) + str(file)), renamed if it exists
target_of(fsys, file, tr) == rename_if_exists(fsys, tr \o file)

\* target.parent.mkdir(parents = True), when target.parent is no directory:
\* the directories it has to create
missing_parents(fsys, target) == { d \in parents(target) : d \notin DOMAIN fsys }

\* it raises when something that is no directory stands where one is needed
mkdir_raises(fsys, target) == \E d \in parents(target) : d \in DOMAIN fsys /\ ~is_dir(fsys, d)

\* the filesystem with the directories ds created
with_dirs(fsys, ds) ==
    [f \in DOMAIN fsys \cup ds |-> IF f \in DOMAIN fsys THEN fsys[f] ELSE "dir"]

\* file.unlink() and shutil.move(src = file, dst = target) raise for a file that
\* is not there, unlink for a directory as well
move_raises(fsys, file, tr, del) ==
    \/ file \notin DOMAIN fsys
    \/ del /\ fsys[file] = "dir"
    \/ ~del /\ mkdir_raises(fsys, target_of(fsys, file, tr))

\* move_file_to_trash: the filesystem it leaves when it returns
move_file_to_trash(fsys, file, tr, del) ==
    IF del
    THEN [f \in DOMAIN fsys \ {file} |-> fsys[f]]
    ELSE LET target == target_of(fsys, file, tr)
             made == with_dirs(fsys, missing_parents(fsys, target))
         IN [f \in (DOMAIN made \ {file}) \cup {target} |->
                IF f = target THEN fsys[file] ELSE made[f]]

\* PydupeDB.delete_file_lookup: the record goes, in the open transaction
delete_file_lookup(pend, file) == pend \cup {file}

\* PydupeDB.commit
commit(committed, pend) == committed \ pend

\* PydupeDB.__exit__ after an exception: the open transaction is rolled back
rollback(pend) == {}

\* Dupetable.delete up to the loop over the chunks
DeleteValidate ==
    \E tr \in Trashes, del \in BOOLEAN :
        /\ pc = "deduped"
        /\ trash' = tr
        /\ hard' = del
        /\ IF ~(len(deltable) > 0 \/ deduped)
           THEN /\ pc' = "finished"
                /\ UNCHANGED <<err, chunks>>
           ELSE IF validate(keeptable, deltable, fs) # "none"
                THEN /\ pc' = "raised"
                     /\ err' = validate(keeptable, deltable, fs)
                     /\ UNCHANGED chunks
                ELSE /\ chunks' = chunked(chain_values(deltable), ChunkSize)
                     /\ pc' = IF chunks' = << >> THEN "finished" ELSE "moving"
                     /\ UNCHANGED err
        /\ UNCHANGED <<scanVars, lut, hashseed, do_move, report, dupes, optionVars, deltable, keeptable, deduped, fs, fs0, db, db0,
                       pending, ci, fi, done>>

\* a variant of MoveFile: the transaction is committed after every file
MoveFileCommitEach ==
    /\ pc = "moving"
    /\ fi <= Len(chunks[ci])
    /\ ~move_raises(fs, chunks[ci][fi], trash, hard)
    /\ fs' = move_file_to_trash(fs, chunks[ci][fi], trash, hard)
    /\ done' = Append(done, [file |-> chunks[ci][fi],
                             target |-> target_of(fs, chunks[ci][fi], trash)])
    /\ db' = commit(db, delete_file_lookup(pending, chunks[ci][fi]))
    /\ pending' = {}
    /\ fi' = fi + 1
    /\ UNCHANGED <<scanVars, lut, hashseed, do_move, report, dupes, optionVars, deltable, keeptable, deduped, pc, err, fs0, db0,
                   trash, hard, chunks, ci>>

\* one round of the inner loop: move_file_to_trash, then db.delete_file_lookup
MoveFile ==
    /\ pc = "moving"
    /\ fi <= Len(chunks[ci])
    /\ ~move_raises(fs, chunks[ci][fi], trash, hard)
    /\ fs' = move_file_to_trash(fs, chunks[ci][fi], trash, hard)
    /\ done' = Append(done, [file |-> chunks[ci][fi],
                             target |-> target_of(fs, chunks[ci][fi], trash)])
    /\ pending' = delete_file_lookup(pending, chunks[ci][fi])
    /\ fi' = fi + 1
    /\ UNCHANGED <<scanVars, lut, hashseed, do_move, report, dupes, optionVars, deltable, keeptable, deduped, pc, err, fs0, db,
                   db0, trash, hard, chunks, ci>>

\* move_file_to_trash raises (permission denied, a move across devices that fails,
\* a parent that cannot be made), with the parents of the target made or not; the
\* exception leaves the with block of the chunk and Dupetable.delete
MoveFileRaises ==
    /\ pc = "moving"
    /\ fi <= Len(chunks[ci])
    /\ \E made \in BOOLEAN :
          LET target == target_of(fs, chunks[ci][fi], trash)
          IN fs' = IF made /\ ~hard /\ ~mkdir_raises(fs, target)
                   THEN with_dirs(fs, missing_parents(fs, target))
                   ELSE fs
    /\ pending' = rollback(pending)
    /\ pc' = "raised"
    /\ err' = "OSError"
    /\ UNCHANGED <<scanVars, lut, hashseed, do_move, report, dupes, optionVars, deltable, keeptable, deduped, fs0, db, db0,
                   trash, hard, chunks, ci, fi, done>>

\* the end of a chunk: db.commit(), and the next chunk or the end of the loop
CommitChunk ==
    /\ pc = "moving"
    /\ fi > Len(chunks[ci])
    /\ db' = commit(db, pending)
    /\ pending' = {}
    /\ ci' = ci + 1
    /\ fi' = 1
    /\ pc' = IF ci + 1 > Len(chunks) THEN "finished" ELSE "moving"
    /\ UNCHANGED <<scanVars, lut, hashseed, do_move, report, dupes, optionVars, deltable, keeptable, deduped, err, fs, fs0, db0,
                   trash, hard, chunks, done>>

\* the dd command with the flags of the partition left at their defaults
DedupeCli ==
    \E dir \in Deldirs, pat \in Patterns : Dedupe(dir, pat, TRUE, TRUE, FALSE)

InitDelete ==
    /\ Loaded(DupeIndexes(ExecPaths, MaxPairs), MaxBad)
    /\ do_move = TRUE
    /\ report = << >>
    /\ hashseed = sorted_keys(Hashes)
    /\ NoScan

NextDelete == DedupeCli \/ DeleteValidate \/ MoveFile \/ MoveFileRaises \/ CommitChunk

SpecDelete == InitDelete /\ [][NextDelete]_vars

----------------------------------------------------------------------------
(* The dd command with and without --do_move *)

\* the file --outfile names in the runs that give one: /o
Outfile == << <<111>> >>

\* Dupetable.get_tree: the files of the tree, red for delete and green for keep,
\* and the numbers of deletions and of keeps
get_tree(dt, kt) ==
    [red |-> pairs(dt), green |-> pairs(kt), dels |-> len(dt), keeps |-> len(kt)]

\* a variant of delete_reached: Dt.delete is called whatever the flag
delete_reached_always(dm) == TRUE

\* dd: "if do_move:" in front of Dt.delete(trash, delete)
delete_reached(dm) == dm

\* dd without --do_move: the numbers and the tree are printed, to the pager or,
\* with --outfile, to the console and saved as html in the file named
DryRun ==
    \E outfile \in BOOLEAN :
        /\ pc = "deduped"
        /\ ~do_move
        /\ report' = << get_tree(deltable, keeptable) >>
        /\ fs' = IF outfile
                 THEN [f \in DOMAIN fs \cup {Outfile} |->
                          IF f = Outfile THEN "file" ELSE fs[f]]
                 ELSE fs
        /\ pc' = "reported"
        /\ UNCHANGED <<scanVars, lut, hashseed, do_move, dupes, optionVars, deltable, keeptable, deduped, err,
                       fs0, db, db0, pending, trash, hard, chunks, ci, fi, done>>

\* dd with --do_move: Dt.delete(trash, delete)
DdDelete == delete_reached(do_move) /\ DeleteValidate

InitCli ==
    /\ Loaded(DupeIndexes(ExecPaths, MaxPairs), MaxBad)
    /\ do_move \in BOOLEAN
    /\ report = << >>
    /\ hashseed = sorted_keys(Hashes)
    /\ NoScan

NextCli == DedupeCli \/ DryRun \/ DdDelete \/ MoveFile \/ MoveFileRaises \/ CommitChunk

SpecCli == InitCli /\ [][NextCli]_vars

----------------------------------------------------------------------------
(* Dupetable.validate on tables of any content *)

\* /t/q, /t/t/q, /b/q
ValidatePaths ==
    { << <<116>>, <<113>> >>, << <<116>>, <<116>>, <<113>> >>, << <<98>>, <<113>> >> }

\* most (hash, path) pairs in each table handed to validate
MaxTable == 2

\* the tables a caller can have put together with LuTable.add
Tables(files, n) ==
    { get_dupes(rows, hash_of) : rows \in inj_seqs(files, n), hash_of \in [files -> Hashes] }

InitValidate ==
    /\ dupes = LuTable
    /\ deldir = << >>
    /\ pattern = <<Dot>>
    /\ match_deletions = TRUE
    /\ dupes_global = FALSE
    /\ autoselect = FALSE
    /\ deltable \in Tables(ValidatePaths, MaxTable)
    /\ keeptable \in Tables(ValidatePaths, MaxTable)
    /\ deduped \in BOOLEAN
    /\ pc = "deduped"
    /\ err = "none"
    /\ fs \in Filesystems({ x[2] : x \in pairs(deltable) \cup pairs(keeptable) }, MaxBad)
    /\ fs0 = fs
    /\ db = { x[2] : x \in pairs(deltable) \cup pairs(keeptable) }
    /\ db0 = db
    /\ pending = {}
    /\ trash = << >>
    /\ hard = FALSE
    /\ chunks = << >>
    /\ ci = 1
    /\ fi = 1
    /\ done = << >>
    /\ do_move = TRUE
    /\ report = << >>
    /\ hashseed = sorted_keys(Hashes)
    /\ NoScan
    /\ lut = LuTable

NextValidate == DeleteValidate

SpecValidate == InitValidate /\ [][NextValidate]_vars

----------------------------------------------------------------------------
(* Dupetable.delete with a trash that holds entries of its own *)

\* the indexed files: /t/q and /t/q_1, with their copy /b/q
TrashSources ==
    { << <<116>>, <<113>> >>, << <<116>>, <<113, 95, 49>> >>, << <<98>>, <<113>> >> }

\* what the trash /x may hold before the run: /x/t/q and /x/t/q_1
TrashSpots ==
    { << <<120>>, <<116>>, <<113>> >>, << <<120>>, <<116>>, <<113, 95, 49>> >> }

\* what stands at such a place: nothing, a regular file, a directory or a link
TrashKinds == BadKinds \cup {"file"}

InitTrash ==
    /\ dupes \in DupeIndexes(TrashSources, Cardinality(TrashSources))
    /\ deldir = << >>
    /\ pattern = <<Dot>>
    /\ match_deletions = TRUE
    /\ dupes_global = FALSE
    /\ autoselect = FALSE
    /\ deltable = LuTable
    /\ keeptable = LuTable
    /\ deduped = FALSE
    /\ pc = "start"
    /\ err = "none"
    /\ fs \in { make_fs({ x[2] : x \in pairs(dupes) } \cup TrashSpots, TrashSpots, kd) :
                   kd \in [TrashSpots -> TrashKinds] }
    /\ fs0 = fs
    /\ db = { x[2] : x \in pairs(dupes) }
    /\ db0 = db
    /\ pending = {}
    /\ trash = << >>
    /\ hard = FALSE
    /\ chunks = << >>
    /\ ci = 1
    /\ fi = 1
    /\ done = << >>
    /\ do_move = TRUE
    /\ report = << >>
    /\ hashseed = sorted_keys(Hashes)
    /\ NoScan
    /\ lut = LuTable

NextTrash == DedupeCli \/ DeleteValidate \/ MoveFile \/ MoveFileRaises \/ CommitChunk

SpecTrash == InitTrash /\ [][NextTrash]_vars

----------------------------------------------------------------------------
(* A LuTable under the operations of its class *)

\* most paths the table holds, over all its buckets
MaxLut == 4

\* /t/q, /b/q
LutPaths == { << <<116>>, <<113>> >>, << <<98>>, <<113>> >> }

\* the tables handed to |= and to lextend as other
LutOthers == Tables(LutPaths, 2)

InitLut ==
    /\ Loaded({LuTable}, 0)
    /\ do_move = FALSE
    /\ report = << >>
    /\ hashseed = sorted_keys(Hashes)
    /\ NoScan

\* t.add((hsh, f))
LutAdd ==
    \E hsh \in Hashes, f \in LutPaths :
        /\ len(lut) < MaxLut
        /\ lut' = add(lut, <<hsh, f>>)
        /\ UNCHANGED <<dupes, optionVars, deltable, keeptable, deduped, pc, err, fs0, db0,
                       execVars, cliVars, hashseed, scanVars>>

\* t.discard((hsh, f)) for a pair the table holds
LutDiscard ==
    \E x \in pairs(lut) :
        /\ lut' = discard(lut, x)
        /\ UNCHANGED <<dupes, optionVars, deltable, keeptable, deduped, pc, err, fs0, db0,
                       execVars, cliVars, hashseed, scanVars>>

\* t |= other
LutIor ==
    \E other \in LutOthers :
        /\ len(lut) + len(other) <= MaxLut
        /\ lut' = ior(lut, other)
        /\ UNCHANGED <<dupes, optionVars, deltable, keeptable, deduped, pc, err, fs0, db0,
                       execVars, cliVars, hashseed, scanVars>>

\* t.lextend(other, key)
LutLextend ==
    \E other \in LutOthers :
        \E key \in keys(other) :
            /\ len(lut) + Len(getitem(other, key)) <= MaxLut
            /\ lut' = lextend(lut, other, key)
            /\ UNCHANGED <<dupes, optionVars, deltable, keeptable, deduped, pc, err, fs0,
                           db0, execVars, cliVars, hashseed, scanVars>>

NextLut == LutAdd \/ LutDiscard \/ LutIor \/ LutLextend

SpecLut == InitLut /\ [][NextLut]_vars

----------------------------------------------------------------------------
(* The hash command: the scanner and the lookup table it fills *)

\* most runs of the hash command in one behaviour
MaxScans == 2

\* how many stat signatures (size, inode, mtime, ctime) a file can go through
NumSigs == 2

Sigs == 1..NumSigs

\* /t/q, /b/q
ScanPaths == { << <<116>>, <<113>> >>, << <<98>>, <<113>> >> }

\* the PATH arguments of the command: /, /t
Roots == { << >>, << <<116>> >> }

\* the regular files a disk can hold, each with its signature and its content;
\* the content of a file is named by the digest it hashes to
Trees == UNION { [S -> [sig : Sigs, data : Hashes]] : S \in SUBSET ScanPaths }

\* the paths of S that lie under root
under(root, S) == { f \in S : is_relative_to(root, f) }

\* data.from_path: the record of the file at f as the disk shows it, with this hash
from_path(tr, f, hsh) == [sig |-> tr[f].sig, hash |-> hsh]

\* hasher.hash_file: the digest of the content of f
hash_file(tr, f) == tr[f].data

\* hasher.clean: the records of files that are no longer on disk leave the lookup
clean(act, tr) == [f \in DOMAIN act \cap DOMAIN tr |-> act[f]]

\* the files under root the scan has to digest: those without a lookup record and
\* those whose record carries another signature than the file has now
to_hash(act, tr, root) ==
    { f \in under(root, DOMAIN tr) : f \notin DOMAIN act \/ act[f].sig # tr[f].sig }

\* the lookup after the walk: a digested file has its record written anew, every
\* other record stays as it was
upsert_all(act, tr, root) ==
    [f \in DOMAIN act \cup under(root, DOMAIN tr) |->
        IF f \in to_hash(act, tr, root)
        THEN from_path(tr, f, hash_file(tr, f))
        ELSE act[f]]

\* the records under root whose file the walk did not meet
unobserved(act, tr, root) == under(root, DOMAIN act) \ DOMAIN tr

\* reconcile(root): the unobserved records move from the lookup to the archive
reconcile(act, arch, tr, root) ==
    [active  |-> [f \in DOMAIN act \ unobserved(act, tr, root) |-> act[f]],
     archive |-> [f \in DOMAIN arch \cup unobserved(act, tr, root) |->
                     IF f \in unobserved(act, tr, root) THEN act[f] ELSE arch[f]]]

\* hasher.hashdir: the walk of root, then reconcile; returns the two tables, the
\* number of files visited and the number of files digested
hashdir(act, arch, tr, root) ==
    LET r == reconcile(upsert_all(act, tr, root), arch, tr, root)
    IN  [active  |-> r.active,
         archive |-> r.archive,
         scanned |-> Cardinality(under(root, DOMAIN tr)),
         hashed  |-> Cardinality(to_hash(act, tr, root))]

\* what one run of the hash command leaves in results: the root, the two numbers
\* it printed, the signatures of the files under root and the files on disk at the
\* time of the run, and the lookup table before and after it
run_record(root, tr, before, r) ==
    [root    |-> root,
     scanned |-> r.scanned,
     hashed  |-> r.hashed,
     seen    |-> [f \in under(root, DOMAIN tr) |-> tr[f].sig],
     disk    |-> DOMAIN tr,
     before  |-> before,
     after   |-> r.active]

\* a variant of the hash command: the lookup table is deleted before the walk
HashCmdDeletesLookup ==
    \E root \in Roots :
        /\ Len(results) < MaxScans
        /\ LET r == hashdir(<< >>, archive, tree, root)
           IN  /\ active' = r.active
               /\ archive' = r.archive
               /\ results' = Append(results, run_record(root, tree, active, r))
        /\ UNCHANGED <<tree, lut, hashseed, do_move, report, dupes, optionVars, deltable,
                       keeptable, deduped, pc, err, fs0, db0, execVars>>

\* pydupe hash PATH: clean, then hashdir, then the two numbers are printed
HashCmd ==
    \E root \in Roots :
        /\ Len(results) < MaxScans
        /\ LET r == hashdir(clean(active, tree), archive, tree, root)
           IN  /\ active' = r.active
               /\ archive' = r.archive
               /\ results' = Append(results, run_record(root, tree, active, r))
        /\ UNCHANGED <<tree, lut, hashseed, do_move, report, dupes, optionVars, deltable,
                       keeptable, deduped, pc, err, fs0, db0, execVars>>

\* between two runs a file is written again: its content, its signature or both
\* change (a write that restores the size and the times leaves the signature alone)
Touch ==
    \E f \in DOMAIN tree, sg \in Sigs, d \in Hashes :
        /\ Len(results) < MaxScans
        /\ [sig |-> sg, data |-> d] # tree[f]
        /\ tree' = [tree EXCEPT ![f] = [sig |-> sg, data |-> d]]
        /\ UNCHANGED <<active, archive, results, lut, hashseed, do_move, report, dupes,
                       optionVars, deltable, keeptable, deduped, pc, err, fs0, db0,
                       execVars>>

\* between two runs a file appears
Create ==
    \E f \in ScanPaths \ DOMAIN tree, sg \in Sigs, d \in Hashes :
        /\ Len(results) < MaxScans
        /\ tree' = [g \in DOMAIN tree \cup {f} |->
                       IF g = f THEN [sig |-> sg, data |-> d] ELSE tree[g]]
        /\ UNCHANGED <<active, archive, results, lut, hashseed, do_move, report, dupes,
                       optionVars, deltable, keeptable, deduped, pc, err, fs0, db0,
                       execVars>>

\* between two runs a file is unlinked
Remove ==
    \E f \in DOMAIN tree :
        /\ Len(results) < MaxScans
        /\ tree' = [g \in DOMAIN tree \ {f} |-> tree[g]]
        /\ UNCHANGED <<active, archive, results, lut, hashseed, do_move, report, dupes,
                       optionVars, deltable, keeptable, deduped, pc, err, fs0, db0,
                       execVars>>

\* a fresh database and any disk
InitScan ==
    /\ Loaded({LuTable}, 0)
    /\ do_move = FALSE
    /\ report = << >>
    /\ hashseed = sorted_keys(Hashes)
    /\ tree \in Trees
    /\ active = << >>
    /\ archive = << >>
    /\ results = << >>

NextScan == HashCmd \/ Touch \/ Create \/ Remove

SpecScan == InitScan /\ [][NextScan]_vars

----------------------------------------------------------------------------
(* Claims about the partition engine, checked under Spec *)

\* the tables dd3 handed to check_and_autoselect in this run
PrePass ==
    select_tables(dupes, deldir, pattern, match_deletions, dupes_global, hashseed)

\* the hashes present in delete and absent from keep before the safety pass
Slated == keys(PrePass.deltable) \ keys(PrePass.keeptable)

\* C1: whatever the index (two distinct paths or more per hash), the directory, the
\* pattern and the flags, the delete table dd3 returns never holds every path the
\* index holds for a hash: one path of the hash at least is absent from delete.
C1_DeleteNeverHoldsEveryCopy ==
    pc = "deduped" =>
        \A h \in keys(dupes) : paths_of(dupes, h) \ paths_of(deltable, h) # {}

\* C1 witness: the safety pass acted on a hash and left a path of it in delete
C1_Witness ==
    /\ pc = "deduped"
    /\ \E h \in Slated : h \in keys(deltable) /\ Len(getitem(PrePass.deltable, h)) >= 2

\* C2: the keep and delete tables dd3 returns share no (hash, path) pair.
C2_KeepDeleteDisjoint ==
    pc = "deduped" => pairs(keeptable) \cap pairs(deltable) = {}

\* C2 witness: a hash with paths in both tables, one of them put back by autoselect
C2_Witness ==
    /\ pc = "deduped"
    /\ autoselect
    /\ \E h \in Slated : h \in keys(deltable) /\ h \in keys(keeptable)
    /\ \E h \in keys(deltable) \ Slated : h \in keys(keeptable)

\* C3: with autoselect off, every hash with a path in delete has a path in keep,
\* and a hash whose every listed path was slated for deletion ends with all those
\* paths in keep and none in delete.
C3_NoAutoselectKeepsACopy ==
    (pc = "deduped" /\ ~autoselect) =>
        /\ \A h \in keys(deltable) :
              h \in keys(keeptable) /\ Len(getitem(keeptable, h)) >= 1
        /\ \A h \in Slated :
              /\ h \notin keys(deltable)
              /\ h \in keys(keeptable)
              /\ paths_of(keeptable, h) = paths_of(PrePass.deltable, h)

\* C3 witness: autoselect off, one hash was slated whole and another has paths in
\* delete and in keep
C3_Witness ==
    /\ pc = "deduped"
    /\ ~autoselect
    /\ Slated # {}
    /\ keys(deltable) # {}

\* C4 as the claim states it: with autoselect on, every slated hash ends, in the
\* tables dd3 returns, with exactly one path in keep and all its other paths in
\* delete, whatever the size of its bucket.
C4_AutoselectKeepsExactlyOne ==
    (pc = "deduped" /\ autoselect) =>
        \A h \in Slated :
            /\ h \in keys(keeptable)
            /\ Len(getitem(keeptable, h)) = 1
            /\ paths_of(deltable, h) =
                   paths_of(PrePass.deltable, h) \ paths_of(keeptable, h)

\* C5 as the claim states it: the path autoselect moves back to delete is the one
\* whose filename is smallest among the hash's original delete-bucket paths.
C5_AutoselectPicksSmallestFilename ==
    (pc = "deduped" /\ autoselect) =>
        \A h \in Slated :
            /\ h \in keys(deltable)
            /\ Len(getitem(deltable, h)) = 1
            /\ \A g \in paths_of(PrePass.deltable, h) :
                  ~StrLess(name(g), name(getitem(deltable, h)[1]))

\* C5 amended: the path autoselect moves back to delete is the one that is
\* smallest in path order (component by component from the root) among the hash's
\* original delete-bucket paths.
C5_AutoselectPicksSmallestPath ==
    (pc = "deduped" /\ autoselect) =>
        \A h \in Slated :
            /\ h \in keys(deltable)
            /\ Len(getitem(deltable, h)) = 1
            /\ getitem(deltable, h)[1] \in paths_of(PrePass.deltable, h)
            /\ \A g \in paths_of(PrePass.deltable, h) :
                  ~PathLess(g, getitem(deltable, h)[1])

\* C5 witness: autoselect chose between two paths that the path order and the
\* filename order rank differently
C5_Witness ==
    /\ pc = "deduped"
    /\ autoselect
    /\ \E h \in Slated :
          /\ h \in keys(deltable)
          /\ \E g \in paths_of(PrePass.deltable, h) :
                /\ PathLess(getitem(deltable, h)[1], g)
                /\ StrLess(name(g), name(getitem(deltable, h)[1]))

----------------------------------------------------------------------------
(* Claims about the validating executor, checked under SpecDelete and, for *)
(* validate on tables of any content, under SpecValidate                   *)

\* the paths of the delete table and of both tables
DeleteFiles == { x[2] : x \in pairs(deltable) }
TableFiles == { x[2] : x \in pairs(deltable) \cup pairs(keeptable) }

\* what a path was when Dupetable.delete was called
Kind0(f) == IF f \in DOMAIN fs0 THEN fs0[f] ELSE "missing"

\* the exceptions of Dupetable.validate
ValidationErrors ==
    {"DupeNotValidated", "DupeFileNotFound", "DupeIsDirectory", "DupeIsSymLink"}

\* a candidate validate raises for: a pair in both tables, or a path of a table
\* that is missing, a directory or a symbolic link
BadCandidate ==
    /\ pc # "start"
    /\ \/ pairs(keeptable) \cap pairs(deltable) # {}
       \/ \E f \in TableFiles : Kind0(f) # "file"

\* the first file, in the order validate looks at them, that is no regular file
FirstBad ==
    LET files == chain_values(keeptable) \o chain_values(deltable)
        bad == { i \in DOMAIN files : Kind0(files[i]) # "file" }
    IN files[CHOOSE i \in bad : \A j \in bad : i <= j]

\* C6: validation runs over the whole proposed set before any mutation: with a bad
\* candidate anywhere in the tables, Dupetable.delete ends in a validation error
\* and has moved or unlinked no file and retired no index record.
C6_ValidationFailsClosed ==
    BadCandidate =>
        /\ fs = fs0
        /\ db = db0
        /\ pending = {}
        /\ done = << >>
        /\ pc \in {"deduped", "raised"}
        /\ pc = "raised" => err \in ValidationErrors

\* C6 witness: validate raised for the last of three delete candidates, the third
\* in a second chunk, after two that are in order
C6_Witness ==
    /\ pc = "raised"
    /\ err \in ValidationErrors
    /\ Len(chain_values(deltable)) = 3
    /\ Kind0(chain_values(deltable)[3]) # "file"
    /\ fs = fs0 /\ db = db0

\* C7 as the claim states it: for a delete candidate validate raises
\* DupeFileNotFound when the path does not exist, DupeIsDirectory when it is a
\* directory and DupeIsSymLink whenever it is a symbolic link, whatever the link
\* points to.
C7_SymlinkAlwaysIsSymlink ==
    (pc = "raised" /\ err \in ValidationErrors /\ pairs(keeptable) \cap pairs(deltable) = {}
        /\ FirstBad \in DeleteFiles) =>
        err = CASE Kind0(FirstBad) = "missing" -> "DupeFileNotFound"
                [] Kind0(FirstBad) = "dir" -> "DupeIsDirectory"
                [] OTHER -> "DupeIsSymLink"

\* C7 amended: for the first path that fails a check, validate raises
\* DupeFileNotFound when the path does not exist or is a symbolic link to nothing,
\* DupeIsDirectory when it is a directory or a symbolic link to one, and
\* DupeIsSymLink when it is a symbolic link to a regular file.
C7_ErrorPerCause ==
    (pc = "raised" /\ err \in ValidationErrors /\ pairs(keeptable) \cap pairs(deltable) = {}) =>
        err = CASE Kind0(FirstBad) \in {"missing", "link_missing"} -> "DupeFileNotFound"
                [] Kind0(FirstBad) \in {"dir", "link_dir"} -> "DupeIsDirectory"
                [] OTHER -> "DupeIsSymLink"

\* C7 witness: validate raised DupeFileNotFound for a delete candidate that is a
\* symbolic link to nothing
C7_Witness ==
    /\ pc = "raised"
    /\ err = "DupeFileNotFound"
    /\ \E f \in DeleteFiles : Kind0(f) = "link_missing"

\* C8: validate raises DupeNotValidated whenever a (hash, path) pair is in keep and
\* in delete, also when a path of the tables is missing, a directory or a link:
\* the comparison of the tables comes before any check of the filesystem.
C8_OverlapRaisedFirst ==
    (pc # "deduped" /\ pairs(keeptable) \cap pairs(deltable) # {}) =>
        pc = "raised" /\ err = "DupeNotValidated"

\* C8 witness: DupeNotValidated was raised for tables that share a pair and hold
\* a path that does not exist
C8_Witness ==
    /\ pc = "raised"
    /\ err = "DupeNotValidated"
    /\ pairs(keeptable) \cap pairs(deltable) # {}
    /\ \E f \in TableFiles : Kind0(f) = "missing"

\* the files of the chunks before chunk k, of chunk k, and those not yet reached
\* in chunk ci and after it
FilesBefore(k) == UNION { { chunks[c][i] : i \in DOMAIN chunks[c] } : c \in 1..(k - 1) }
FilesOf(k) == { chunks[k][i] : i \in DOMAIN chunks[k] }
FilesLeft ==
    { chunks[ci][i] : i \in fi..Len(chunks[ci]) } \cup
    UNION { FilesOf(c) : c \in (ci + 1)..Len(chunks) }

\* C9: when a file operation fails inside chunk ci, no file of the rest of that
\* chunk or of a later chunk is moved or deleted, every path of the chunks before
\* stays retired, the retirements of chunk ci are committed all or not at all, and
\* the files already moved or deleted stay so.
C9_FailureInsideABatch ==
    (pc = "raised" /\ err = "OSError") =>
        /\ \A f \in FilesLeft :
              /\ f \in DOMAIN fs /\ fs[f] = Kind0(f)
              /\ \A i \in DOMAIN done : done[i].file # f
        /\ \A f \in FilesBefore(ci) : f \notin db
        /\ \/ db = db0 \ FilesBefore(ci)
           \/ db = db0 \ (FilesBefore(ci) \cup FilesOf(ci))
        /\ pending = {}
        /\ \A i \in DOMAIN done :
              IF hard THEN done[i].file \notin DOMAIN fs
              ELSE /\ done[i].target \in DOMAIN fs /\ fs[done[i].target] = "file"
                   /\ \/ done[i].file \notin DOMAIN fs
                      \/ \E j \in DOMAIN done : j > i /\ done[j].target = done[i].file

\* C9 witness: the move of the third file failed, in the second chunk, after the
\* two files of the first chunk were moved to the trash and retired
C9_Witness ==
    /\ pc = "raised"
    /\ err = "OSError"
    /\ ci = 2
    /\ Len(done) = 2
    /\ ~hard
    /\ FilesLeft # {}

\* C10 as the claim states it: when Dupetable.delete has returned, the lookup
\* records are those before the call minus the paths of delete, every path of
\* delete is absent from its original location, and no other path has changed.
C10_DeleteRemovesExactlyDelete ==
    pc = "finished" =>
        /\ db = db0 \ DeleteFiles
        /\ \A f \in DeleteFiles : f \notin DOMAIN fs
        /\ \A f \in DOMAIN fs0 \ DeleteFiles : f \in DOMAIN fs /\ fs[f] = fs0[f]

----------------------------------------------------------------------------
(* Claims about the dd command, checked under SpecCli *)

\* Dupetable.delete has been called: its argument trash is bound
DeleteCalled == trash # << >>

\* C11: in a run of dd without --do_move no file is moved or deleted and no record
\* of the database changes, and Dupetable.delete is not called: every path that
\* was there at the start is there as it was, nothing is retired or pending.
C11_DryRunChangesNothing ==
    ~do_move =>
        /\ \A f \in DOMAIN fs0 : f \in DOMAIN fs /\ fs[f] = fs0[f]
        /\ db = db0
        /\ pending = {}
        /\ done = << >>
        /\ ~DeleteCalled

\* C11 witness: a dry run has printed a tree with a file to delete and saved it
C11_Witness ==
    /\ ~do_move
    /\ pc = "reported"
    /\ report # << >>
    /\ report[1].dels > 0
    /\ Outfile \in DOMAIN fs

\* C12 as the claim states it: a dry run validates the tables against the
\* filesystem and reports the outcome: when it has ended with a delete candidate
\* that is missing, a directory or a symbolic link, a validation error was raised.
C12_DryRunReportsValidation ==
    (~do_move /\ pc \notin {"start", "deduped"}
        /\ \E f \in DeleteFiles : Kind0(f) # "file") =>
        err \in ValidationErrors

----------------------------------------------------------------------------
(* Further claims about the partition engine, checked under Spec *)

\* C13: dd3 is deterministic: whatever the order in which the process iterates
\* its sets of hashes, a call with the same index, directory, pattern and flags
\* returns the tables this run returned, with the same hashes in the same order
\* and the same paths in the same order in each bucket, or raises as this run did.
C13_PartitionDeterministic ==
    pc # "start" =>
        \A seed \in Seeds :
            LET r == dd3(dupes, deldir, pattern, match_deletions, dupes_global,
                         autoselect, seed)
            IN IF pc = "deduped"
               THEN r = [deltable |-> deltable, keeptable |-> keeptable, raised |-> "none"]
               ELSE r.raised = err

\* C13 witness: a run whose sets are not iterated in sorted order, with two
\* hashes in the safety pass
C13_Witness ==
    /\ pc = "deduped"
    /\ hashseed # sorted_keys(Hashes)
    /\ Cardinality(Slated) >= 2

\* the paths the index holds for hash h, in index order: those under deldir whose
\* filename the pattern finds, those under deldir it does not, those outside
Matching(h) ==
    SelectSeq(getitem(dupes, h),
              LAMBDA f : is_relative_to(deldir, f) /\ search(pattern, name(f)))
NonMatching(h) ==
    SelectSeq(getitem(dupes, h),
              LAMBDA f : is_relative_to(deldir, f) /\ ~search(pattern, name(f)))
OutOfScope(h) == SelectSeq(getitem(dupes, h), LAMBDA f : ~is_relative_to(deldir, f))

\* C15: with match_deletions and dupes_global, a hash with a matching path under
\* deldir and a path besides has in delete exactly its matching paths and in keep
\* its non-matching paths under deldir followed by its paths outside, each in
\* index order; a hash with no path under deldir is in neither table.
C15_GlobalMatchDeletes ==
    (pc = "deduped" /\ match_deletions /\ dupes_global) =>
        \A h \in keys(dupes) :
            /\ (Matching(h) # << >> /\ NonMatching(h) \o OutOfScope(h) # << >>) =>
                   /\ h \in keys(deltable)
                   /\ getitem(deltable, h) = Matching(h)
                   /\ h \in keys(keeptable)
                   /\ getitem(keeptable, h) = NonMatching(h) \o OutOfScope(h)
            /\ (Matching(h) \o NonMatching(h) = << >>) =>
                   h \notin keys(deltable) \cup keys(keeptable)

\* C15 witness: a hash with a matching path, a non-matching path under deldir and
\* a path outside
C15_Witness ==
    /\ pc = "deduped"
    /\ match_deletions
    /\ dupes_global
    /\ \E h \in keys(dupes) :
          Matching(h) # << >> /\ NonMatching(h) # << >> /\ OutOfScope(h) # << >>

\* C16: with match_deletions and without dupes_global, a hash whose one path
\* under deldir matches, its other copies lying outside, is in neither table dd3
\* returns, whatever autoselect; a hash with two matching paths or more under
\* deldir and no non-matching one there is not dropped: it goes into the safety
\* pass with all its matching paths and comes out with a path in keep.
C16_LocalSingleDropped ==
    (pc = "deduped" /\ match_deletions /\ ~dupes_global) =>
        \A h \in keys(dupes) :
            /\ (Len(Matching(h)) = 1 /\ NonMatching(h) = << >>) =>
                   /\ h \notin keys(deltable) \cup keys(keeptable)
                   /\ h \notin Slated
            /\ (Len(Matching(h)) >= 2 /\ NonMatching(h) = << >>) =>
                   /\ h \in Slated
                   /\ getitem(PrePass.deltable, h) = Matching(h)
                   /\ h \in keys(keeptable)

\* C16 witness: a run in local mode with a hash of each kind, one with a single
\* matching path under deldir and one with two
C16_Witness ==
    /\ pc = "deduped"
    /\ match_deletions
    /\ ~dupes_global
    /\ \E h \in keys(dupes) : Len(Matching(h)) = 1 /\ NonMatching(h) = << >>
    /\ \E h \in keys(dupes) : Len(Matching(h)) >= 2 /\ NonMatching(h) = << >>

\* C17 as the claim states it: with match_deletions and dupes_global and without
\* autoselect, keep holds only hashes that have a path in delete as well, and a
\* hash whose paths under deldir all fail to match is in neither table.
C17_KeepOnlyHashesInDelete ==
    (pc = "deduped" /\ match_deletions /\ dupes_global /\ ~autoselect) =>
        /\ keys(keeptable) \subseteq keys(deltable)
        /\ \A h \in keys(dupes) :
               (Matching(h) = << >> /\ NonMatching(h) # << >>) =>
                   h \notin keys(deltable) \cup keys(keeptable)

----------------------------------------------------------------------------
(* Claims about LuTable, checked under SpecLut *)

\* C14 as the claim states it: after any sequence of add, discard, |= and
\* lextend on a LuTable no (hash, path) pair occurs in it more than once: the
\* table has as many entries as it has distinct pairs.
C14_NoPairTwice == len(lut) = Cardinality(pairs(lut))

----------------------------------------------------------------------------
(* Claims about the move to the trash, checked under SpecTrash *)

\* the i-th candidate for the target of file: trash + file for 0, then the same
\* with _1, _2, ... at its stem
Candidate(file, i) ==
    IF i = 0 THEN trash \o file
    ELSE with_stem(trash \o file, stem(trash \o file) \o <<95>> \o str(i))

\* a place was taken, at the start or as the target of one of the first n moves
Taken(f, n) == f \in DOMAIN fs0 \/ \E j \in 1..n : done[j].target = f

\* C18 as the claim states it: a file moved to the trash is placed at trash + its
\* path if that place is free, else at the first free place with _1, _2, ... at
\* the stem; over the moves of a run nothing that was in the trash before it is
\* overwritten or removed, and no file moved in is overwritten by a later one.
C18_TrashKeepsWhatItHolds ==
    (DeleteCalled /\ ~hard) =>
        /\ \A i \in DOMAIN done :
               \E n \in 0..(Cardinality(DOMAIN fs0) + Len(done)) :
                   /\ done[i].target = Candidate(done[i].file, n)
                   /\ \A m \in 0..(n - 1) : Taken(Candidate(done[i].file, m), i - 1)
        /\ \A i \in DOMAIN done :
               ~Taken(Candidate(done[i].file, 0), i - 1) =>
                   done[i].target = Candidate(done[i].file, 0)
        /\ \A i, j \in DOMAIN done : i # j => done[i].target # done[j].target
        /\ \A f \in DOMAIN fs0 :
               (is_relative_to(trash, f) /\ f \notin DeleteFiles) =>
                   f \in DOMAIN fs /\ fs[f] = fs0[f]

----------------------------------------------------------------------------
(* A claim about the paths dd3 selects for deletion, checked under Spec *)

\* C21: with match_deletions, for every index, directory and pattern and both
\* values of dupes_global and autoselect, every path of the delete table dd3
\* returns lies under deldir and has a filename the pattern finds; this holds for
\* the paths check_and_autoselect puts back into delete as well.
C21_DeleteOnlyMatchingInScope ==
    (pc = "deduped" /\ match_deletions) =>
        \A x \in pairs(deltable) :
            /\ is_relative_to(deldir, x[2])
            /\ search(pattern, name(x[2]))

\* a run with match_deletions and autoselect in which a hash was slated, so that
\* check_and_autoselect put one of its paths back into delete, while the index
\* holds a path outside deldir and a path under deldir the pattern does not find
C21_Witness ==
    /\ pc = "deduped"
    /\ match_deletions
    /\ autoselect
    /\ \E h \in Slated : h \in keys(deltable)
    /\ \E h \in keys(dupes) : OutOfScope(h) # << >>
    /\ \E h \in keys(dupes) : NonMatching(h) # << >>

----------------------------------------------------------------------------
(* A claim about the return of dd3, checked under Spec *)

\* C20: for every index with two paths per hash or more, every directory, pattern
\* and combination of flags, dd3 returns its two tables: the lookup keeptable[hsh]
\* that follows the discard in check_and_autoselect finds the bucket of the hash,
\* so no KeyError leaves the call, a delete bucket of one path included.
C20_PartitionReturnsNormally == ~(pc = "raised" /\ err = "KeyError")

----------------------------------------------------------------------------
(* Claims about the hash command, checked under SpecScan *)

\* C19: when two runs of the hash command on the same root follow each other and
\* the files under root and their stat signatures are the same at both, the second
\* run reports no file hashed and as many files scanned as the first, and every
\* record the lookup table held for a file on disk is still there with its hash.
C19_SecondScanHashesNothing ==
    \A n \in 2..Len(results) :
        LET a == results[n - 1]
            b == results[n]
        IN  (a.root = b.root /\ a.seen = b.seen) =>
                /\ b.hashed = 0
                /\ b.scanned = a.scanned
                /\ \A f \in DOMAIN b.before \cap b.disk :
                       /\ f \in DOMAIN b.after
                       /\ b.after[f].hash = b.before[f].hash

\* two runs on one root with the same files under it, the first of which hashed a
\* file
C19_Witness ==
    /\ Len(results) = 2
    /\ results[1].root = results[2].root
    /\ results[1].seen = results[2].seen
    /\ results[1].hashed >= 1
    /\ results[2].scanned >= 1

====
